---------------------------- MODULE Spec2Model ----------------------------
(***************************************************************************)
(* A model of the worm of puzzle-game-rs: the six-way Direction3, the      *)
(* Vector3i grid position, the WormSegments double-ended chain and the     *)
(* Worm aggregate with its construction, crawl and lengthen operations.    *)
(*                                                                         *)
(* A Vector3i is a record [x, y, z].  A WormSegments is the sequence of    *)
(* its VecDeque, front (head end) first.  An Option<WormSegments> is a     *)
(* record [some, dq]: None is [some |-> FALSE, dq |-> <<>>], so a stored   *)
(* zero-length chain, Some(<<>>), is a value distinct from None.           *)
(***************************************************************************)
EXTENDS Integers, Sequences, FiniteSets, TLC

VARIABLES
    status,         \* "start" before construction, "live", or the panic that ended the program
    head_position,  \* Worm::head_position
    segments,       \* Worm::segments : Option<WormSegments>
    borrowed,       \* a LengthenTaillessError holding &mut Worm is outstanding
    last            \* the last call: its name, inputs, outcome and the worm before it

vars == <<status, head_position, segments, borrowed, last>>

\* ------------------------------------------------------------------ bounds

\* Longest chain the model constructs or grows to.
MaxLen == 3

\* Largest |x| + |y| + |z| of a head position the model lets the worm reach.
MaxCoord == 1

\* Longest chain string, besides the documented one, handed to the parser.
MaxStr == 2

\* How far from zero and from either i32 limit the components of the left
\* operand of a vector expression are taken.
MaxEdge == 0

\* How many iterations of main's loop the model follows.
MaxTicks == 2

\* --------------------------------------------------------------- Direction3

Direction3 == {"East", "West", "North", "South", "Up", "Down"}

\* impl Neg for Direction3 with the vertical pair left unswapped.
NegKeepsVertical(d) ==
    CASE d = "East"  -> "West"
      [] d = "West"  -> "East"
      [] d = "North" -> "South"
      [] d = "South" -> "North"
      [] d = "Up"    -> "Up"
      [] d = "Down"  -> "Down"

\* impl Neg for Direction3
Neg(d) ==
    CASE d = "East"  -> "West"
      [] d = "West"  -> "East"
      [] d = "North" -> "South"
      [] d = "South" -> "North"
      [] d = "Up"    -> "Down"
      [] d = "Down"  -> "Up"

\* ----------------------------------------------------------------- Vector3i

Vector3i_new(x, y, z) == [x |-> x, y |-> y, z |-> z]

\* impl From<Direction3> for Vector3i with the signs of the z arm exchanged.
ToVectorDownPositive(value) ==
    [x |-> CASE value = "East"  -> 1
             [] value = "West"  -> -1
             [] OTHER           -> 0,
     y |-> CASE value = "North" -> 1
             [] value = "South" -> -1
             [] OTHER           -> 0,
     z |-> CASE value = "Up"    -> -1
             [] value = "Down"  -> 1
             [] OTHER           -> 0]

\* impl From<Direction3> for Vector3i
ToVector(value) ==
    [x |-> CASE value = "East"  -> 1
             [] value = "West"  -> -1
             [] OTHER           -> 0,
     y |-> CASE value = "North" -> 1
             [] value = "South" -> -1
             [] OTHER           -> 0,
     z |-> CASE value = "Up"    -> 1
             [] value = "Down"  -> -1
             [] OTHER           -> 0]

\* The limits of the i32 type of the components x, y and z.
I32Max == 2147483647

I32Min == -I32Max - 1

\* An arithmetic operator of i32 that leaves the range panics where overflow
\* checks are compiled in (the debug profile) and wraps modulo 2^32 where
\* they are not (the release profile).
Builds == {"debug", "release"}

Overflowed(build, wrapped) ==
    IF build = "debug"
    THEN [outcome |-> "panic", value |-> 0]
    ELSE [outcome |-> "Ok", value |-> wrapped]

\* -a on i32
neg_i32(build, a) ==
    IF a = I32Min
    THEN Overflowed(build, I32Min)
    ELSE [outcome |-> "Ok", value |-> -a]

\* a + b on i32
add_i32(build, a, b) ==
    IF b > 0 /\ a > I32Max - b
    THEN Overflowed(build, I32Min + ((b - (I32Max - a)) - 1))
    ELSE IF b < 0 /\ a < I32Min - b
    THEN Overflowed(build, I32Max + ((b - (I32Min - a)) + 1))
    ELSE [outcome |-> "Ok", value |-> a + b]

\* a - b on i32
sub_i32(build, a, b) ==
    IF b < 0 /\ a > I32Max + b
    THEN Overflowed(build, I32Min + ((a - 1) - (I32Max + b)))
    ELSE IF b > 0 /\ a < I32Min + b
    THEN Overflowed(build, I32Max + ((a + 1) - (I32Min + b)))
    ELSE [outcome |-> "Ok", value |-> a - b]

\* The low 32 bits of x * 2^n as a two's-complement i32, for n in 2..31.
Shl(x, n) ==
    LET m == 2^(32 - n)
        u == x % m
    IN IF u >= m \div 2 THEN (u - m) * 2^n ELSE u * 2^n

\* The low 32 bits of a * s for 0 <= s < 2^15, from the 16-bit halves of a.
MulSmall(a, s) ==
    add_i32("release", Shl((a \div 65536) * s, 16), (a % 65536) * s).value

\* The low 32 bits of a * b as a two's-complement i32, from the 15-bit
\* limbs of |b|.
wrapping_mul(a, b) ==
    IF b = I32Min
    THEN (IF a % 2 = 0 THEN 0 ELSE I32Min)
    ELSE LET n == IF b < 0 THEN -b ELSE b
             low == MulSmall(a, n % 32768)
             mid == Shl(MulSmall(a, (n \div 32768) % 32768), 15)
             top == Shl(MulSmall(a, n \div 2^30), 30)
             product == add_i32("release", add_i32("release", low, mid).value, top).value
         IN IF b < 0 THEN neg_i32("release", product).value ELSE product

\* Whether the product a * b lies outside the i32 range.
MulOverflows(a, b) ==
    IF a = 0 \/ b = 0 THEN FALSE
    ELSE IF a > 0 /\ b > 0 THEN a > I32Max \div b
    ELSE IF a > 0 /\ b < 0 THEN b < ((I32Min + a) - 1) \div a
    ELSE IF a < 0 /\ b > 0 THEN a < ((I32Min + b) - 1) \div b
    ELSE IF a = I32Min \/ b = I32Min THEN TRUE
    ELSE (-a) > I32Max \div (-b)

\* a * b on i32
mul_i32(build, a, b) ==
    IF MulOverflows(a, b)
    THEN Overflowed(build, wrapping_mul(a, b))
    ELSE [outcome |-> "Ok", value |-> a * b]

\* A struct expression Self { x, y, z } over three i32 results: it has a
\* value when none of them panicked.
Components(rx, ry, rz) ==
    IF rx.outcome = "panic" \/ ry.outcome = "panic" \/ rz.outcome = "panic"
    THEN [outcome |-> "panic", value |-> Vector3i_new(0, 0, 0)]
    ELSE [outcome |-> "Ok", value |-> Vector3i_new(rx.value, ry.value, rz.value)]

\* impl Neg for Vector3i
Vector3i_neg(build, self) ==
    Components(neg_i32(build, self.x), neg_i32(build, self.y), neg_i32(build, self.z))

\* impl Add for Vector3i
Vector3i_add(build, self, rhs) ==
    Components(add_i32(build, self.x, rhs.x), add_i32(build, self.y, rhs.y),
               add_i32(build, self.z, rhs.z))

\* impl Sub for Vector3i
Vector3i_sub(build, self, rhs) ==
    Components(sub_i32(build, self.x, rhs.x), sub_i32(build, self.y, rhs.y),
               sub_i32(build, self.z, rhs.z))

\* impl Mul for Vector3i
Vector3i_mul(build, self, rhs) ==
    Components(mul_i32(build, self.x, rhs.x), mul_i32(build, self.y, rhs.y),
               mul_i32(build, self.z, rhs.z))

\* impl AddAssign, SubAssign and MulAssign for Vector3i: *self = *self op rhs
Vector3i_add_assign(build, self, rhs) == Vector3i_add(build, self, rhs)

Vector3i_sub_assign(build, self, rhs) == Vector3i_sub(build, self, rhs)

Vector3i_mul_assign(build, self, rhs) == Vector3i_mul(build, self, rhs)

\* impl Add<Direction3> for Vector3i
Vector3i_add_Direction3(build, self, rhs) == Vector3i_add(build, self, ToVector(rhs))

\* impl Sub<Direction3> for Vector3i
Vector3i_sub_Direction3(build, self, rhs) == Vector3i_add(build, self, ToVector(Neg(rhs)))

\* impl AddAssign<Direction3> and SubAssign<Direction3> for Vector3i
Vector3i_add_assign_Direction3(build, self, rhs) == Vector3i_add_Direction3(build, self, rhs)

Vector3i_sub_assign_Direction3(build, self, rhs) == Vector3i_sub_Direction3(build, self, rhs)


\* impl Add for Vector3i with rhs.x added to the y component as well.
VectorAddCrossed(self, rhs) ==
    [x |-> self.x + rhs.x, y |-> self.y + rhs.x, z |-> self.z + rhs.z]

\* impl Add for Vector3i, for operands whose sums stay inside the i32 range
VectorAdd(self, rhs) ==
    [x |-> self.x + rhs.x, y |-> self.y + rhs.y, z |-> self.z + rhs.z]

\* impl Add<Direction3> for Vector3i, stepping the wrong way.
AddDirectionBackwards(self, rhs) == VectorAdd(self, ToVector(Neg(rhs)))

\* impl Add<Direction3> for Vector3i (AddAssign<Direction3> assigns its result)
AddDirection(self, rhs) == VectorAdd(self, ToVector(rhs))

Abs(n) == IF n < 0 THEN -n ELSE n

\* The head positions within the model's range.
InRange(v) == Abs(v.x) + Abs(v.y) + Abs(v.z) <= MaxCoord

Positions ==
    {v \in [x : (-MaxCoord)..MaxCoord, y : (-MaxCoord)..MaxCoord, z : (-MaxCoord)..MaxCoord] :
        InRange(v)}

\* ------------------------------------------------------------- WormSegments

None == [some |-> FALSE, dq |-> <<>>]

Some(s) == [some |-> TRUE, dq |-> s]

\* The direction sequences of length lo..hi.
DirSeqs(lo, hi) == UNION {[1..n -> Direction3] : n \in lo..hi}

\* FromIterator<Direction3> for WormSegments without its assertion.
FromIterUnchecked(iter) == [outcome |-> "Ok", value |-> iter]

\* impl FromIterator<Direction3> for WormSegments: assert!(iter.peek().is_some())
FromIter(iter) ==
    IF Len(iter) = 0
    THEN [outcome |-> "panic", value |-> <<>>]
    ELSE [outcome |-> "Ok", value |-> iter]

\* impl From<[Direction3; N]> for WormSegments: assert_ne!(N, 0)
FromArray(value) ==
    IF Len(value) = 0
    THEN [outcome |-> "panic", value |-> <<>>]
    ELSE [outcome |-> "Ok", value |-> value]

\* WormSegments::len
len(s) == Len(s)

\* WormSegments::head_direction: front().expect(..); "panic" on an empty chain
head_direction(s) == IF s = <<>> THEN "panic" ELSE s[1]

\* WormSegments::tail_direction reading the front of the deque instead of the back.
tail_direction_front(s) == IF s = <<>> THEN "panic" ELSE s[1]

\* WormSegments::tail_direction: back().expect(..); "panic" on an empty chain
tail_direction(s) == IF s = <<>> THEN "panic" ELSE s[Len(s)]

\* WormSegments::push_head pushing at the back of the deque.
push_head_at_tail(s, direction) == Append(s, direction)

\* WormSegments::push_head
push_head(s, direction) == <<direction>> \o s

\* WormSegments::push_tail pushing at the front of the deque.
push_tail_at_head(s, direction) == <<direction>> \o s

\* WormSegments::push_tail
push_tail(s, direction) == Append(s, direction)

\* WormSegments::pop_head removing two entries.
pop_head_twice(s) ==
    LET rest == SubSeq(s, 3, Len(s))
    IN [old_direction |-> s[1],
        updated_segments |-> IF rest /= <<>> THEN Some(rest) ELSE None]

\* WormSegments::pop_head: pop_front, then Some(self) only if entries remain
pop_head(s) ==
    LET rest == SubSeq(s, 2, Len(s))
    IN [old_direction |-> s[1],
        updated_segments |-> IF rest /= <<>> THEN Some(rest) ELSE None]

\* WormSegments::pop_tail removing two entries.
pop_tail_twice(s) ==
    LET rest == SubSeq(s, 1, Len(s) - 2)
    IN [old_direction |-> s[Len(s)],
        updated_segments |-> IF rest /= <<>> THEN Some(rest) ELSE None]

\* WormSegments::pop_tail always handing the chain back, emptied or not.
pop_tail_keeps_empty(s) ==
    [old_direction |-> s[Len(s)], updated_segments |-> Some(SubSeq(s, 1, Len(s) - 1))]

\* WormSegments::pop_tail: pop_back, then Some(self) only if entries remain
pop_tail(s) ==
    LET rest == SubSeq(s, 1, Len(s) - 1)
    IN [old_direction |-> s[Len(s)],
        updated_segments |-> IF rest /= <<>> THEN Some(rest) ELSE None]

\* --------------------------------------------------------------------- Worm

Worm(h, segs) == [head_position |-> h, segments |-> segs]

\* Worm::is_tailless
is_tailless(w) == ~w.segments.some

\* Worm::num_segments
num_segments(w) == IF w.segments.some THEN len(w.segments.dq) + 1 ELSE 1

\* WormSegments::iter: the entries front to back, the chain left as it is.
iter(s) == s

\* The scan of Worm::segment_positions never updating its running position.
scan_without_carry(from, dirs) == [i \in 1..Len(dirs) |-> AddDirection(from, dirs[i])]

RECURSIVE scan(_, _)
\* The scan of Worm::segment_positions: the running sums of the chain from `from`.
scan(from, dirs) ==
    IF dirs = <<>>
    THEN <<>>
    ELSE LET next == AddDirection(from, dirs[1])
         IN <<next>> \o scan(next, SubSeq(dirs, 2, Len(dirs)))

\* Worm::segment_positions
segment_positions(w) ==
    <<w.head_position>> \o
        (IF w.segments.some THEN scan(w.head_position, iter(w.segments.dq)) ELSE <<>>)

\* worm.segment_positions().collect() emptying the chain it walks, as
\* std::mem::take does in Worm::crawl.
collect_positions_taking(w) ==
    [worm |-> Worm(w.head_position, None), yielded |-> segment_positions(w)]

\* worm.segment_positions().collect(): the items yielded, and the worm the
\* shared borrow leaves behind.
collect_positions(w) == [worm |-> w, yielded |-> segment_positions(w)]

\* Worm::new
Worm_new(h, dirs) ==
    LET built == FromIter(dirs)
    IN [panicked |-> built.outcome = "panic",
        chain    |-> built,
        worm     |-> Worm(h, Some(built.value))]

\* Worm::new_tailless
Worm_new_tailless(h) == Worm(h, None)

\* Worm::try_lengthen on a tailed worm pushing at the head end.
try_lengthen_at_head(w) ==
    IF w.segments.some
    THEN LET t == tail_direction(w.segments.dq)
         IN [ok       |-> t /= "panic",
             panicked |-> t = "panic",
             worm     |-> IF t = "panic" THEN w
                          ELSE Worm(w.head_position, Some(push_head(w.segments.dq, t)))]
    ELSE [ok |-> FALSE, panicked |-> FALSE, worm |-> w]

\* Worm::try_lengthen growing at the head end by stepping the head forward.
try_lengthen_moves_head(w) ==
    IF w.segments.some
    THEN LET h == head_direction(w.segments.dq)
         IN [ok       |-> h /= "panic",
             panicked |-> h = "panic",
             worm     |-> IF h = "panic" THEN w
                          ELSE Worm(AddDirection(w.head_position, Neg(h)),
                                    Some(push_head(w.segments.dq, h)))]
    ELSE [ok |-> FALSE, panicked |-> FALSE, worm |-> w]

\* Worm::try_lengthen
try_lengthen(w) ==
    IF w.segments.some
    THEN LET t == tail_direction(w.segments.dq)
         IN [ok       |-> t /= "panic",
             panicked |-> t = "panic",
             worm     |-> IF t = "panic" THEN w
                          ELSE Worm(w.head_position, Some(push_tail(w.segments.dq, t)))]
    ELSE [ok |-> FALSE, panicked |-> FALSE, worm |-> w]

\* LengthenTaillessError::resolve installing the direction twice.
resolve_twice(w, direction) ==
    Worm(w.head_position, Some(FromArray(<<direction, direction>>).value))

\* LengthenTaillessError::resolve
resolve(w, direction) ==
    Worm(w.head_position, Some(FromArray(<<direction>>).value))

\* Worm::crawl with the tail pop left out of the normal-advance branch.
crawl_without_pop(w, crawl_direction) ==
    LET moved == AddDirection(w.head_position, crawl_direction)
    IN IF is_tailless(w)
       THEN [panicked |-> FALSE, worm |-> Worm(moved, None)]
       ELSE LET segs == w.segments.dq
                new_head_direction == Neg(crawl_direction)
                current_head_direction == head_direction(segs)
            IN IF current_head_direction = "panic"
               THEN [panicked |-> TRUE, worm |-> Worm(moved, None)]
               ELSE IF Neg(current_head_direction) /= new_head_direction
               THEN [panicked |-> FALSE,
                     worm |-> Worm(moved, Some(push_head(segs, new_head_direction)))]
               ELSE [panicked |-> FALSE,
                     worm |-> Worm(moved,
                         pop_head(push_tail(segs, tail_direction(segs))).updated_segments)]

\* Worm::crawl testing the neck direction without negating it.
crawl_unnegated_test(w, crawl_direction) ==
    LET moved == AddDirection(w.head_position, crawl_direction)
    IN IF is_tailless(w)
       THEN [panicked |-> FALSE, worm |-> Worm(moved, None)]
       ELSE LET segs == w.segments.dq
                new_head_direction == Neg(crawl_direction)
                current_head_direction == head_direction(segs)
            IN IF current_head_direction = "panic"
               THEN [panicked |-> TRUE, worm |-> Worm(moved, None)]
               ELSE IF current_head_direction /= new_head_direction
               THEN [panicked |-> FALSE,
                     worm |-> Worm(moved,
                         pop_tail(push_head(segs, new_head_direction)).updated_segments)]
               ELSE [panicked |-> FALSE,
                     worm |-> Worm(moved,
                         pop_head(push_tail(segs, tail_direction(segs))).updated_segments)]

\* Worm::crawl
crawl(w, crawl_direction) ==
    LET moved == AddDirection(w.head_position, crawl_direction)
    IN IF is_tailless(w)
       THEN [panicked |-> FALSE, worm |-> Worm(moved, None)]
       ELSE LET segs == w.segments.dq
                new_head_direction == Neg(crawl_direction)
                current_head_direction == head_direction(segs)
            IN IF current_head_direction = "panic"
               THEN [panicked |-> TRUE, worm |-> Worm(moved, None)]
               ELSE IF Neg(current_head_direction) /= new_head_direction
               THEN [panicked |-> FALSE,
                     worm |-> Worm(moved,
                         pop_tail(push_head(segs, new_head_direction)).updated_segments)]
               ELSE [panicked |-> FALSE,
                     worm |-> Worm(moved,
                         pop_head(push_tail(segs, tail_direction(segs))).updated_segments)]

\* Worm::try_crawl failing after the head has already moved.
try_crawl_moves_first(w, crawl_direction) ==
    IF ~is_tailless(w) /\ crawl_direction = Neg(head_direction(w.segments.dq))
    THEN [result |-> "InvalidDirectionError",
          worm   |-> Worm(AddDirection(w.head_position, crawl_direction), w.segments)]
    ELSE [result |-> IF crawl(w, crawl_direction).panicked THEN "panic" ELSE "Ok",
          worm   |-> crawl(w, crawl_direction).worm]

\* Worm::try_crawl, the strict variant of crawl: a travel direction that is
\* the exact reversal of the neck direction is rejected with
\* InvalidDirectionError and nothing is mutated; any other direction crawls.
try_crawl(w, crawl_direction) ==
    IF ~is_tailless(w) /\ crawl_direction = Neg(head_direction(w.segments.dq))
    THEN [result |-> "InvalidDirectionError", worm |-> w]
    ELSE [result |-> IF crawl(w, crawl_direction).panicked THEN "panic" ELSE "Ok",
          worm   |-> crawl(w, crawl_direction).worm]


\* ------------------------------------------------------------ chain parser

\* The characters of the parser's vocabulary.
Vocabulary == {"<", ">", "^", "v", "o", "x"}

\* The parser's table read as arrows pointing where the body goes.
char_to_direction_arrows(c) ==
    CASE c = ">" -> "East"
      [] c = "<" -> "West"
      [] c = "^" -> "North"
      [] c = "v" -> "South"
      [] c = "o" -> "Down"
      [] c = "x" -> "Up"

\* The parser's table from characters to directions.
char_to_direction(c) ==
    CASE c = "<" -> "East"
      [] c = ">" -> "West"
      [] c = "^" -> "North"
      [] c = "v" -> "South"
      [] c = "o" -> "Down"
      [] c = "x" -> "Up"

\* The first character of s outside the vocabulary; s has one.
FirstInvalid(s) ==
    s[CHOOSE i \in 1..Len(s) :
        /\ s[i] \notin Vocabulary
        /\ \A j \in 1..(i - 1) : s[j] \in Vocabulary]

\* Worm::from_str keeping the valid prefix of a string it rejects.
from_str_keeps_prefix(h, s) ==
    IF \E i \in 1..Len(s) : s[i] \notin Vocabulary
    THEN LET k == CHOOSE i \in 1..Len(s) :
                     /\ s[i] \notin Vocabulary
                     /\ \A j \in 1..(i - 1) : s[j] \in Vocabulary
             made == Worm_new(h, [i \in 1..(k - 1) |-> char_to_direction(s[i])])
         IN [result   |-> "ParseError",
             chain    |-> [outcome |-> "ParseError", value |-> <<s[k]>>],
             built    |-> ~made.panicked,
             worm     |-> made.worm]
    ELSE LET made == Worm_new(h, [i \in 1..Len(s) |-> char_to_direction(s[i])])
         IN [result   |-> IF made.panicked THEN "panic" ELSE "Ok",
             chain    |-> made.chain,
             built    |-> ~made.panicked,
             worm     |-> made.worm]

\* Worm::from_str: every character is translated by the table and the
\* directions are handed to Worm::new; a character outside the vocabulary
\* ends the parse with an error naming it, and no worm is built.
from_str(h, s) ==
    IF \E i \in 1..Len(s) : s[i] \notin Vocabulary
    THEN [result   |-> "ParseError",
          chain    |-> [outcome |-> "ParseError", value |-> <<FirstInvalid(s)>>],
          built    |-> FALSE,
          worm     |-> Worm(h, None)]
    ELSE LET made == Worm_new(h, [i \in 1..Len(s) |-> char_to_direction(s[i])])
         IN [result   |-> IF made.panicked THEN "panic" ELSE "Ok",
             chain    |-> made.chain,
             built    |-> ~made.panicked,
             worm     |-> made.worm]

\* ------------------------------------------------------------------ actions

Self == Worm(head_position, segments)

NoChain == [outcome |-> "-", value |-> <<>>]

\* The record of a call: result is "Ok", the name of the returned error, or "panic";
\* yielded, count and tailless are what the read-only operations returned;
\* build, lhs and rhs are the build profile and operands of a vector expression,
\* whose value is the one element of yielded; tick counts the iterations of
\* main's loop.
Call(op, d, input, result, chain, prev) ==
    [op |-> op, direction |-> d, input |-> input, result |-> result, chain |-> chain,
     prev |-> prev, yielded |-> <<>>, count |-> 0, tailless |-> FALSE,
     build |-> "-", lhs |-> Vector3i_new(0, 0, 0), rhs |-> Vector3i_new(0, 0, 0),
     tick |-> 0]

Init ==
    /\ status = "start"
    /\ head_position = Vector3i_new(0, 0, 0)
    /\ segments = None
    /\ borrowed = FALSE
    /\ last = Call("-", "-", <<>>, "Ok", NoChain, Worm(Vector3i_new(0, 0, 0), None))

\* let worm = Worm::new(h, dirs)
New(h, dirs) ==
    /\ status = "start"
    /\ LET r == Worm_new(h, dirs)
       IN /\ status' = IF r.panicked THEN "panic_assert" ELSE "live"
          /\ head_position' = IF r.panicked THEN head_position ELSE r.worm.head_position
          /\ segments' = IF r.panicked THEN segments ELSE r.worm.segments
          /\ last' = Call("new", "-", dirs, IF r.panicked THEN "panic" ELSE "Ok", r.chain, Self)
    /\ UNCHANGED borrowed

\* let worm = Worm::new_tailless(h)
NewTailless(h) ==
    /\ status = "start"
    /\ status' = "live"
    /\ head_position' = Worm_new_tailless(h).head_position
    /\ segments' = Worm_new_tailless(h).segments
    /\ last' = Call("new_tailless", "-", <<>>, "Ok", NoChain, Self)
    /\ UNCHANGED borrowed

\* worm.crawl(d)
Crawl(d) ==
    /\ status = "live"
    /\ ~borrowed
    /\ InRange(AddDirection(head_position, d))
    /\ LET r == crawl(Self, d)
       IN /\ status' = IF r.panicked THEN "panic_expect" ELSE "live"
          /\ head_position' = r.worm.head_position
          /\ segments' = r.worm.segments
          /\ last' = Call("crawl", d, <<>>, IF r.panicked THEN "panic" ELSE "Ok", NoChain, Self)
    /\ UNCHANGED borrowed

\* let result = worm.try_lengthen()
TryLengthen ==
    /\ status = "live"
    /\ ~borrowed
    /\ num_segments(Self) <= MaxLen
    /\ LET r == try_lengthen(Self)
       IN /\ status' = IF r.panicked THEN "panic_expect" ELSE "live"
          /\ head_position' = r.worm.head_position
          /\ segments' = r.worm.segments
          /\ borrowed' = (~r.ok /\ ~r.panicked)
          /\ last' = Call("try_lengthen", "-", <<>>,
                         IF r.panicked THEN "panic"
                         ELSE IF r.ok THEN "Ok" ELSE "LengthenTaillessError",
                         NoChain, Self)

\* result.unwrap_err().resolve(d)
Resolve(d) ==
    /\ status = "live"
    /\ borrowed
    /\ head_position' = resolve(Self, d).head_position
    /\ segments' = resolve(Self, d).segments
    /\ borrowed' = FALSE
    /\ last' = Call("resolve", d, <<d>>, "Ok", FromArray(<<d>>), Self)
    /\ UNCHANGED status

\* The LengthenTaillessError is dropped without being resolved.
DropError ==
    /\ status = "live"
    /\ borrowed
    /\ borrowed' = FALSE
    /\ last' = Call("drop", "-", <<>>, "Ok", NoChain, Self)
    /\ UNCHANGED <<status, head_position, segments>>

\* The direction sequences handed to Worm::new, the empty one included.
NewInputs == DirSeqs(0, MaxLen)

Next ==
    \/ status = "start" /\ \E h \in Positions, dirs \in NewInputs : New(h, dirs)
    \/ status = "start" /\ \E h \in Positions : NewTailless(h)
    \/ \E d \in Direction3 : Crawl(d)
    \/ TryLengthen
    \/ \E d \in Direction3 : Resolve(d)
    \/ DropError

Spec == Init /\ [][Next]_vars

\* let result = worm.try_crawl(d)
TryCrawl(d) ==
    /\ status = "live"
    /\ ~borrowed
    /\ InRange(AddDirection(head_position, d))
    /\ LET r == try_crawl(Self, d)
       IN /\ status' = IF r.result = "panic" THEN "panic_expect" ELSE "live"
          /\ head_position' = r.worm.head_position
          /\ segments' = r.worm.segments
          /\ last' = Call("try_crawl", d, <<>>, r.result, NoChain, Self)
    /\ UNCHANGED borrowed

\* The worm driven through the strict crawl as well.
NextStrict ==
    \/ Next
    \/ \E d \in Direction3 : TryCrawl(d)

SpecStrict == Init /\ [][NextStrict]_vars

\* worm.is_tailless(); worm.num_segments(); worm.segment_positions().collect()
Observe ==
    /\ status = "live"
    /\ ~borrowed
    /\ LET r == collect_positions(Self)
       IN /\ head_position' = r.worm.head_position
          /\ segments' = r.worm.segments
          /\ last' = [Call("segment_positions", "-", <<>>, "Ok", NoChain, Self)
                          EXCEPT !.yielded = r.yielded,
                                 !.count = num_segments(Self),
                                 !.tailless = is_tailless(Self)]
    /\ UNCHANGED <<status, borrowed>>

NextObserve ==
    \/ Next
    \/ Observe

SpecObserve == Init /\ [][NextObserve]_vars

\* let PopResult { old_direction, updated_segments } = segments.pop_head()
PopHead ==
    /\ status = "live"
    /\ ~borrowed
    /\ segments.some
    /\ LET r == pop_head(segments.dq)
       IN /\ segments' = r.updated_segments
          /\ last' = Call("pop_head", r.old_direction, <<>>, "Ok", NoChain, Self)
    /\ UNCHANGED <<status, head_position, borrowed>>

\* let PopResult { old_direction, updated_segments } = segments.pop_tail()
PopTail ==
    /\ status = "live"
    /\ ~borrowed
    /\ segments.some
    /\ LET r == pop_tail(segments.dq)
       IN /\ segments' = r.updated_segments
          /\ last' = Call("pop_tail", r.old_direction, <<>>, "Ok", NoChain, Self)
    /\ UNCHANGED <<status, head_position, borrowed>>

\* Chains of every length from 1 to MaxLen are built and popped from either end.
NextPop ==
    \/ status = "start" /\ \E h \in Positions, dirs \in NewInputs : New(h, dirs)
    \/ PopHead
    \/ PopTail

SpecPop == Init /\ [][NextPop]_vars

\* The components of the left operand: around zero and at both i32 limits.
EdgeComponents ==
    {I32Min + k : k \in 0..MaxEdge} \cup ((-MaxEdge)..MaxEdge) \cup {I32Max - k : k \in 0..MaxEdge}

LhsVectors == [x : EdgeComponents, y : EdgeComponents, z : EdgeComponents]

\* The components of the right operand: the limits, zero and the units.
RhsComponents == {I32Min, -1, 0, 1, I32Max}

RhsVectors == [x : RhsComponents, y : RhsComponents, z : RhsComponents]

\* The record of evaluating a vector expression.
Evaluated(build, op, d, v, w, r) ==
    [Call(op, d, <<>>, r.outcome, NoChain, Self)
        EXCEPT !.build = build, !.lhs = v, !.rhs = w,
               !.yielded = IF r.outcome = "Ok" THEN <<r.value>> ELSE <<>>]

\* let result = -v
Negate(build, v) ==
    /\ status = "start"
    /\ LET r == Vector3i_neg(build, v)
       IN /\ status' = IF r.outcome = "panic" THEN "panic_overflow" ELSE "computed"
          /\ last' = Evaluated(build, "neg", "-", v, v, r)
    /\ UNCHANGED <<head_position, segments, borrowed>>

BinaryOps == {"add", "sub", "mul", "add_assign", "sub_assign", "mul_assign"}

\* let result = v + w, v - w or v * w; or v += w, v -= w or v *= w, the
\* result being v afterwards
Binary(build, op, v, w) ==
    /\ status = "start"
    /\ LET r == CASE op = "add"        -> Vector3i_add(build, v, w)
                  [] op = "sub"        -> Vector3i_sub(build, v, w)
                  [] op = "mul"        -> Vector3i_mul(build, v, w)
                  [] op = "add_assign" -> Vector3i_add_assign(build, v, w)
                  [] op = "sub_assign" -> Vector3i_sub_assign(build, v, w)
                  [] op = "mul_assign" -> Vector3i_mul_assign(build, v, w)
       IN /\ status' = IF r.outcome = "panic" THEN "panic_overflow" ELSE "computed"
          /\ last' = Evaluated(build, op, "-", v, w, r)
    /\ UNCHANGED <<head_position, segments, borrowed>>

StepOps == {"add_direction", "sub_direction", "add_assign_direction",
            "sub_assign_direction", "add_sub_direction"}

\* let result = v + d or v - d; or v += d or v -= d, the result being v
\* afterwards; or let result = (v + d) - d
Step(build, op, v, d) ==
    /\ status = "start"
    /\ LET r == CASE op = "add_direction"        -> Vector3i_add_Direction3(build, v, d)
                  [] op = "sub_direction"        -> Vector3i_sub_Direction3(build, v, d)
                  [] op = "add_assign_direction" -> Vector3i_add_assign_Direction3(build, v, d)
                  [] op = "sub_assign_direction" -> Vector3i_sub_assign_Direction3(build, v, d)
                  [] op = "add_sub_direction"    ->
                         LET there == Vector3i_add_Direction3(build, v, d)
                         IN IF there.outcome = "panic" THEN there
                            ELSE Vector3i_sub_Direction3(build, there.value, d)
       IN /\ status' = IF r.outcome = "panic" THEN "panic_overflow" ELSE "computed"
          /\ last' = Evaluated(build, op, d, v, ToVector(d), r)
    /\ UNCHANGED <<head_position, segments, borrowed>>

NextVector ==
    \/ status = "start" /\ \E build \in Builds, v \in LhsVectors : Negate(build, v)
    \/ status = "start" /\ \E build \in Builds, op \in BinaryOps, v \in LhsVectors, w \in RhsVectors :
           Binary(build, op, v, w)
    \/ status = "start" /\ \E build \in Builds, op \in StepOps, v \in LhsVectors, d \in Direction3 :
           Step(build, op, v, d)

SpecVector == Init /\ [][NextVector]_vars

\* The keys main reads each tick.
Keys == {"KEY_A", "KEY_LEFT", "KEY_D", "KEY_RIGHT", "KEY_W", "KEY_UP", "KEY_S", "KEY_DOWN"}

KeyOrder == <<"KEY_A", "KEY_LEFT", "KEY_D", "KEY_RIGHT", "KEY_W", "KEY_UP", "KEY_S", "KEY_DOWN">>

\* bool as isize
AsInt(b) == IF b THEN 1 ELSE 0

\* main's crawl_direction with the vertical axis matched first.
crawl_direction_vertical_first(pressed) ==
    LET input_left  == "KEY_A" \in pressed \/ "KEY_LEFT" \in pressed
        input_right == "KEY_D" \in pressed \/ "KEY_RIGHT" \in pressed
        input_up    == "KEY_W" \in pressed \/ "KEY_UP" \in pressed
        input_down  == "KEY_S" \in pressed \/ "KEY_DOWN" \in pressed
        input_horizontal == AsInt(input_right) - AsInt(input_left)
        input_vertical   == AsInt(input_up) - AsInt(input_down)
    IN CASE input_vertical >= 1                           -> "North"
         [] input_vertical <= -1                          -> "South"
         [] input_vertical = 0 /\ input_horizontal >= 1  -> "East"
         [] input_vertical = 0 /\ input_horizontal <= -1 -> "West"
         [] input_vertical = 0 /\ input_horizontal = 0   -> "None"

\* main: the block computing crawl_direction from the keys pressed this
\* tick; "None" is Option::None, a direction d is Some(d).
crawl_direction(pressed) ==
    LET input_left  == "KEY_A" \in pressed \/ "KEY_LEFT" \in pressed
        input_right == "KEY_D" \in pressed \/ "KEY_RIGHT" \in pressed
        input_up    == "KEY_W" \in pressed \/ "KEY_UP" \in pressed
        input_down  == "KEY_S" \in pressed \/ "KEY_DOWN" \in pressed
        input_horizontal == AsInt(input_right) - AsInt(input_left)
        input_vertical   == AsInt(input_up) - AsInt(input_down)
    IN CASE input_horizontal >= 1                         -> "East"
         [] input_horizontal <= -1                        -> "West"
         [] input_horizontal = 0 /\ input_vertical >= 1   -> "North"
         [] input_horizontal = 0 /\ input_vertical <= -1  -> "South"
         [] input_horizontal = 0 /\ input_vertical = 0    -> "None"

\* The worm main constructs.
MainHead == Vector3i_new(0, 0, 0)

MainDirections ==
    <<"South", "East", "East", "East", "South", "South", "South", "West", "West", "West">>

\* One iteration of main's loop: read the keys, crawl if they give a
\* direction, draw the segment positions.
Tick(pressed) ==
    /\ status = "live"
    /\ ~borrowed
    /\ last.tick < MaxTicks
    /\ LET direction == crawl_direction(pressed)
           r == IF direction = "None"
                THEN [panicked |-> FALSE, worm |-> Self]
                ELSE crawl(Self, direction)
           drawn == collect_positions(r.worm)
       IN /\ status' = IF r.panicked THEN "panic_expect" ELSE "live"
          /\ head_position' = drawn.worm.head_position
          /\ segments' = drawn.worm.segments
          /\ last' = [Call("tick", direction, SelectSeq(KeyOrder, LAMBDA k : k \in pressed),
                           IF r.panicked THEN "panic" ELSE "Ok", NoChain, Self)
                          EXCEPT !.yielded = drawn.yielded,
                                 !.count = num_segments(r.worm),
                                 !.tick = last.tick + 1]
    /\ UNCHANGED borrowed

NextTick ==
    \/ status = "start" /\ New(MainHead, MainDirections)
    \/ \E pressed \in SUBSET Keys : Tick(pressed)

SpecTick == Init /\ [][NextTick]_vars

\* worm.crawl(d); worm.crawl(-d)
CrawlThenBack(d) ==
    /\ status = "live"
    /\ ~borrowed
    /\ InRange(AddDirection(head_position, d))
    /\ LET there == crawl(Self, d)
           back  == IF there.panicked THEN there ELSE crawl(there.worm, Neg(d))
       IN /\ status' = IF back.panicked THEN "panic_expect" ELSE "live"
          /\ head_position' = back.worm.head_position
          /\ segments' = back.worm.segments
          /\ last' = Call("crawl_then_back", d, <<>>, IF back.panicked THEN "panic" ELSE "Ok",
                          NoChain, Self)
    /\ UNCHANGED borrowed

\* The worm driven through there-and-back crawls as well.
NextRoundTrip ==
    \/ Next
    \/ \E d \in Direction3 : CrawlThenBack(d)

SpecRoundTrip == Init /\ [][NextRoundTrip]_vars

\* The string of from_str::test_doc and the head it is parsed at.
DocString == <<">", ">", ">", "^", ">", "v", ">", "o", "<", "<", "x", "v", "<">>

DocHead == Vector3i_new(5, 3, 8)

\* The directions from_str::test_doc builds its second worm from.
DocDirections ==
    <<"East", "East", "East", "North", "East", "South", "East", "Down", "West", "West",
      "Up", "South", "West">>

\* The short strings over the vocabulary and one foreign character.
StrInputs == UNION {[1..n -> Vocabulary \cup {"#"}] : n \in 0..MaxStr}

ParseHeads == {Vector3i_new(0, 0, 0), DocHead}

\* The calls made to the parser: every short string at every head, and the
\* documented string at the documented head.
ParseInputs == (ParseHeads \X StrInputs) \cup {<<DocHead, DocString>>}

\* let parsed = Worm::from_str(h, s)
FromStr(h, s) ==
    /\ status = "start"
    /\ LET r == from_str(h, s)
       IN /\ status' = IF r.result = "panic" THEN "panic_assert"
                       ELSE IF r.built THEN "live" ELSE "start"
          /\ head_position' = IF r.built THEN r.worm.head_position ELSE head_position
          /\ segments' = IF r.built THEN r.worm.segments ELSE segments
          /\ last' = Call("from_str", "-", s, r.result, r.chain, Self)
    /\ UNCHANGED borrowed

\* The worm built by the parser, then crawled and lengthened.  (No parse
\* yields a tailless worm, so there is no LengthenTaillessError to resolve.)
NextParse ==
    \/ status = "start" /\ \E in \in ParseInputs : FromStr(in[1], in[2])
    \/ \E d \in Direction3 : Crawl(d)
    \/ TryLengthen

SpecParse == Init /\ [][NextParse]_vars

\* ------------------------------------------------------- the worm's contract

\* The chain of the worm before the last call.
PrevChain == last.prev.segments.dq

\* The last call was a crawl of a tailed worm that took the normal-advance
\* branch: negate(head_direction) /= negate(crawl_direction).
NormalAdvance ==
    /\ last.op = "crawl"
    /\ ~is_tailless(last.prev)
    /\ Neg(head_direction(PrevChain)) /= Neg(last.direction)

\* The last call was a crawl of a tailed worm that took the reversal branch.
Reversal ==
    /\ last.op = "crawl"
    /\ ~is_tailless(last.prev)
    /\ Neg(head_direction(PrevChain)) = Neg(last.direction)

\* C1: in every state reached by construction, crawl, try_lengthen and
\* resolve, the chain is absent or has length >= 1, and no call has ended in
\* the empty-chain panic of head_direction() / tail_direction().
C1_ChainAbsentOrNonEmpty ==
    /\ segments.some => len(segments.dq) >= 1
    /\ status /= "panic_expect"

\* A one-entry chain has gone through the push and pop of a crawl and is
\* still a one-entry chain.
C1_Witness ==
    /\ last.op = "crawl"
    /\ last.prev.segments.some
    /\ len(PrevChain) = 1
    /\ segments.some
    /\ len(segments.dq) = 1

\* C2: a crawl in the normal-advance branch leaves num_segments() unchanged.
C2_NormalCrawlKeepsLength ==
    NormalAdvance => num_segments(Self) = num_segments(last.prev)

\* A normal-advance crawl of a worm of three segments has happened.
C2_Witness ==
    /\ NormalAdvance
    /\ num_segments(last.prev) = 3

\* C3 as stated: a normal-advance crawl of a worm whose chain has exactly one
\* entry leaves the worm tailless with num_segments() = 1.
C3_OneEntryChainCollapses ==
    (NormalAdvance /\ len(PrevChain) = 1) =>
        (is_tailless(Self) /\ num_segments(Self) = 1)

\* C3 amended: a normal-advance crawl(d) of a worm whose chain has exactly one
\* entry leaves a chain of exactly the one entry negate(d): the worm stays
\* tailed, num_segments() stays 2, and no zero-length chain is stored.
C3_OneEntryChainIsReplaced ==
    (NormalAdvance /\ len(PrevChain) = 1) =>
        /\ ~is_tailless(Self)
        /\ num_segments(Self) = 2
        /\ segments = Some(<<Neg(last.direction)>>)

\* A normal-advance crawl of a worm whose chain has exactly one entry has
\* happened.
C3_Witness ==
    /\ NormalAdvance
    /\ len(PrevChain) = 1
    /\ status = "live"

\* C4: crawl(d) moves the head by exactly the unit vector of d (+x East,
\* -x West, +y North, -y South, +z Up, -z Down), whatever the chain and the
\* branch; a tailless worm stays tailless with num_segments() = 1.
C4_CrawlMovesHeadByUnit ==
    last.op = "crawl" =>
        LET d == last.direction
            p == last.prev.head_position
        IN /\ head_position.x = p.x + (IF d = "East" THEN 1 ELSE IF d = "West" THEN -1 ELSE 0)
           /\ head_position.y = p.y + (IF d = "North" THEN 1 ELSE IF d = "South" THEN -1 ELSE 0)
           /\ head_position.z = p.z + (IF d = "Up" THEN 1 ELSE IF d = "Down" THEN -1 ELSE 0)
           /\ is_tailless(last.prev) => (is_tailless(Self) /\ num_segments(Self) = 1)

\* A tailless worm has crawled downwards.
C4_Witness ==
    /\ last.op = "crawl"
    /\ is_tailless(last.prev)
    /\ last.direction = "Down"

\* C5: in the reversal branch the new chain is the old chain without its
\* first entry, followed by the old last entry; its length is unchanged.
C5_ReversalShiftsChain ==
    Reversal =>
        /\ segments = Some(SubSeq(PrevChain, 2, Len(PrevChain)) \o <<PrevChain[Len(PrevChain)]>>)
        /\ len(segments.dq) = len(PrevChain)

\* A reversal crawl of a chain whose first and last entries differ has
\* happened.
C5_Witness ==
    /\ Reversal
    /\ len(PrevChain) >= 2
    /\ PrevChain[1] /= PrevChain[Len(PrevChain)]

\* C6: try_crawl(d) with d the exact reversal of the neck direction (neck
\* North, d South) fails with InvalidDirectionError and mutates nothing: the
\* head position and the chain are those before the call.
C6_StrictCrawlRejectsReversal ==
    (/\ last.op = "try_crawl"
     /\ ~is_tailless(last.prev)
     /\ last.direction = Neg(head_direction(PrevChain))) =>
        /\ last.result = "InvalidDirectionError"
        /\ status = "live"
        /\ head_position = last.prev.head_position
        /\ segments = last.prev.segments

\* A worm whose neck lies North of its head has been told to try_crawl South.
C6_Witness ==
    /\ last.op = "try_crawl"
    /\ ~is_tailless(last.prev)
    /\ head_direction(PrevChain) = "North"
    /\ last.direction = "South"

\* C7: try_lengthen on a tailed worm returns Ok, raises num_segments() by
\* exactly 1, and the new chain is the old chain with the old tail direction
\* appended at the tail end.
C7_LengthenAppendsTail ==
    (last.op = "try_lengthen" /\ ~is_tailless(last.prev)) =>
        /\ last.result = "Ok"
        /\ ~borrowed
        /\ num_segments(Self) = num_segments(last.prev) + 1
        /\ segments = Some(PrevChain \o <<PrevChain[Len(PrevChain)]>>)

\* A chain whose two entries differ has been lengthened.
C7_Witness ==
    /\ last.op = "try_lengthen"
    /\ ~is_tailless(last.prev)
    /\ len(PrevChain) = 2
    /\ PrevChain[1] /= PrevChain[2]

\* C8: try_lengthen on a tailless worm fails with LengthenTaillessError and
\* the worm stays tailless while the error is outstanding; resolve(d)
\* installs the chain <<d>>, so num_segments() = 2 and tail_direction() = d.
C8_LengthenTaillessFailsAndResolves ==
    /\ (last.op = "try_lengthen" /\ is_tailless(last.prev)) =>
          (last.result = "LengthenTaillessError" /\ borrowed /\ status = "live")
    /\ borrowed => is_tailless(Self)
    /\ last.op = "resolve" =>
          /\ is_tailless(last.prev)
          /\ segments = Some(<<last.direction>>)
          /\ num_segments(Self) = 2
          /\ tail_direction(segments.dq) = last.direction

\* The error of a tailless try_lengthen has been resolved towards North.
C8_Witness ==
    /\ last.op = "resolve"
    /\ last.direction = "North"
    /\ ~borrowed

\* C9 as stated: Worm::new(head, <<>>) yields a tailless worm of one segment
\* whose segment_positions() is the head alone, and no panic surfaces.
C9_NewFromEmptyIsTailless ==
    (last.op = "new" /\ last.input = <<>>) =>
        /\ status = "live"
        /\ is_tailless(Self)
        /\ num_segments(Self) = 1
        /\ segment_positions(Self) = <<head_position>>

\* C10 as stated: building a chain from an empty sequence ends in a returned
\* EmptyChainError, and every chain construction that succeeds holds the
\* input directions, at least one, in the given order.
C10_EmptyChainIsReturnedError ==
    last.op \in {"new", "resolve"} =>
        /\ last.input = <<>> => (last.chain.outcome = "EmptyChainError" /\ status /= "panic_assert")
        /\ last.chain.outcome = "Ok" => (len(last.chain.value) >= 1 /\ last.chain.value = last.input)

\* The number of entries equal to d among the first k entries of chain c.
CountOf(c, k, d) == Cardinality({i \in 1..k : c[i] = d})

\* Position p displaced by the first k entries of chain c, coordinate by
\* coordinate: +x per East, -x per West, +y per North, -y per South, +z per
\* Up, -z per Down.
Displaced(p, c, k) ==
    [x |-> p.x + CountOf(c, k, "East") - CountOf(c, k, "West"),
     y |-> p.y + CountOf(c, k, "North") - CountOf(c, k, "South"),
     z |-> p.z + CountOf(c, k, "Up") - CountOf(c, k, "Down")]

\* C11: segment_positions() yields exactly num_segments() elements; element
\* 0 is head_position() and element k >= 1 is head_position() plus the sum
\* of the unit vectors of the first k chain directions; a tailless worm
\* yields exactly one element.
C11_PositionsArePrefixSums ==
    status = "live" =>
        LET sp == segment_positions(Self)
        IN /\ Len(sp) = num_segments(Self)
           /\ sp[1] = head_position
           /\ \A k \in 1..(Len(sp) - 1) : sp[k + 1] = Displaced(head_position, segments.dq, k)
           /\ is_tailless(Self) => Len(sp) = 1

\* A live worm has a chain of three entries that turns twice.
C11_Witness ==
    /\ status = "live"
    /\ segments.some
    /\ len(segments.dq) = 3
    /\ segments.dq[1] /= segments.dq[2]
    /\ segments.dq[2] /= segments.dq[3]

\* C15: negation is an involution without fixed points and a bijection on
\* the six directions, exchanging East and West, North and South, Up and
\* Down; the direction crawl stores at the head end is the negation so
\* described.
C15_NegationInvolution ==
    /\ \A d \in Direction3 : Neg(d) \in Direction3 /\ Neg(Neg(d)) = d /\ Neg(d) /= d
    /\ \A a, b \in Direction3 : Neg(a) = Neg(b) => a = b
    /\ {Neg(d) : d \in Direction3} = Direction3
    /\ Neg("East") = "West" /\ Neg("West") = "East"
    /\ Neg("North") = "South" /\ Neg("South") = "North"
    /\ Neg("Up") = "Down" /\ Neg("Down") = "Up"
    /\ NormalAdvance =>
          LET stored == segments.dq[1]
          IN stored /= last.direction /\ Neg(stored) = last.direction

\* A normal-advance crawl upwards has stored Down at the head end.
C15_Witness ==
    /\ NormalAdvance
    /\ last.direction = "Up"
    /\ segments.dq[1] = "Down"

\* C16: the vector of a direction has exactly one nonzero component, of
\* magnitude 1: x for East (+) and West (-), y for North (+) and South (-),
\* z for Up (+) and Down (-); the vector of negate(d) is the component-wise
\* negation of the vector of d.  The step of a crawl is that vector.
C16_UnitVectors ==
    /\ \A d \in Direction3 :
          LET v == ToVector(d)
              n == ToVector(Neg(d))
          IN /\ Abs(v.x) + Abs(v.y) + Abs(v.z) = 1
             /\ v.x = (IF d = "East" THEN 1 ELSE IF d = "West" THEN -1 ELSE 0)
             /\ v.y = (IF d = "North" THEN 1 ELSE IF d = "South" THEN -1 ELSE 0)
             /\ v.z = (IF d = "Up" THEN 1 ELSE IF d = "Down" THEN -1 ELSE 0)
             /\ n.x = -v.x /\ n.y = -v.y /\ n.z = -v.z
    /\ last.op = "crawl" =>
          LET v == ToVector(last.direction)
          IN /\ head_position.x - last.prev.head_position.x = v.x
             /\ head_position.y - last.prev.head_position.y = v.y
             /\ head_position.z - last.prev.head_position.z = v.z

\* A crawl upwards has raised the head by one cell on z.
C16_Witness ==
    /\ last.op = "crawl"
    /\ last.direction = "Up"
    /\ head_position.z = last.prev.head_position.z + 1

\* C17: a crawl, whatever its direction and branch, leaves num_segments()
\* unchanged and keeps a tailed worm tailed; num_segments() changes only by
\* a successful try_lengthen or a resolve, each raising it by exactly 1, so
\* no call on the worm lowers it.
C17_LengthChangesOnlyByGrowth ==
    /\ last.op = "crawl" =>
          /\ num_segments(Self) = num_segments(last.prev)
          /\ is_tailless(Self) = is_tailless(last.prev)
    /\ ((last.op = "try_lengthen" /\ last.result = "Ok") \/ last.op = "resolve") =>
          num_segments(Self) = num_segments(last.prev) + 1
    /\ ((last.op = "try_lengthen" /\ last.result /= "Ok") \/ last.op = "drop") =>
          num_segments(Self) = num_segments(last.prev)
    /\ last.op \in {"crawl", "try_lengthen", "resolve", "drop"} =>
          num_segments(Self) >= num_segments(last.prev)

\* A worm whose neck lies North of its head has crawled South.
C17_Witness ==
    /\ last.op = "crawl"
    /\ ~is_tailless(last.prev)
    /\ head_direction(PrevChain) = "North"
    /\ last.direction = "South"
    /\ len(PrevChain) >= 2

\* C18: after a normal-advance crawl(d) the chain is negate(d) followed by
\* the old chain without its last entry, and the positions q after the crawl
\* relate to the positions p before it by q[0] = p[0] + d and q[i] = p[i-1]
\* for 1 <= i <= n-1.
C18_NormalAdvanceShiftsBody ==
    NormalAdvance =>
        LET p == segment_positions(last.prev)
            q == segment_positions(Self)
        IN /\ segments = Some(<<Neg(last.direction)>> \o SubSeq(PrevChain, 1, Len(PrevChain) - 1))
           /\ Len(q) = Len(p)
           /\ q[1] = Displaced(p[1], <<last.direction>>, 1)
           /\ \A i \in 2..Len(p) : q[i] = p[i - 1]

\* A normal-advance crawl of a worm of four segments that turned has
\* happened.
C18_Witness ==
    /\ NormalAdvance
    /\ len(PrevChain) = 3
    /\ last.direction /= Neg(PrevChain[1])
    /\ PrevChain[2] /= PrevChain[3]

\* C19: after a reversal crawl of a worm with positions p[0..n-1] and tail
\* direction t, the positions q satisfy q[i] = p[i+1] for 0 <= i <= n-2 and
\* q[n-1] = p[n-1] + t, and no two consecutive positions of q coincide.
C19_ReversalShiftsBody ==
    Reversal =>
        LET p == segment_positions(last.prev)
            q == segment_positions(Self)
            n == Len(p)
        IN /\ n >= 2
           /\ Len(q) = n
           /\ \A i \in 1..(n - 1) : q[i] = p[i + 1]
           /\ q[n] = Displaced(p[n], <<PrevChain[Len(PrevChain)]>>, 1)
           /\ \A i \in 1..(n - 1) : q[i] /= q[i + 1]

\* A reversal crawl of a worm of four segments whose chain turns has
\* happened.
C19_Witness ==
    /\ Reversal
    /\ len(PrevChain) = 3
    /\ PrevChain[1] /= PrevChain[2]
    /\ PrevChain[2] /= PrevChain[3]

\* C20: for a tailed worm with chain c and a direction d that takes the
\* normal-advance branch, crawl(d) followed by crawl(negate(d)) restores the
\* head position and every chain entry except possibly the last; the whole
\* chain is restored exactly when the re-grown tail entry equals the
\* original last entry.
C20_ThereAndBack ==
    (/\ last.op = "crawl_then_back"
     /\ ~is_tailless(last.prev)
     /\ Neg(head_direction(PrevChain)) /= Neg(last.direction)) =>
        LET n == Len(PrevChain)
        IN /\ status = "live"
           /\ head_position = last.prev.head_position
           /\ segments.some
           /\ Len(segments.dq) = n
           /\ \A i \in 1..(n - 1) : segments.dq[i] = PrevChain[i]
           /\ (segments = last.prev.segments) <=> (segments.dq[n] = PrevChain[n])

\* A there-and-back crawl has happened on a chain whose last entry was not
\* restored.
C20_Witness ==
    /\ last.op = "crawl_then_back"
    /\ ~is_tailless(last.prev)
    /\ Neg(head_direction(PrevChain)) /= Neg(last.direction)
    /\ len(PrevChain) = 3
    /\ segments.dq[3] /= PrevChain[3]

\* The last call parsed a string whose characters are all in the vocabulary.
ParsedValid ==
    /\ last.op = "from_str"
    /\ \A i \in 1..Len(last.input) : last.input[i] \in Vocabulary

\* The last call parsed a string holding a character outside the vocabulary.
ParsedInvalid ==
    /\ last.op = "from_str"
    /\ \E i \in 1..Len(last.input) : last.input[i] \notin Vocabulary

\* C12 as stated: from_str(h, s) succeeds for every string s over the
\* vocabulary and its segment_positions() equals that of Worm::new(h, dirs),
\* dirs the per-character translation of s; the documented string parsed at
\* (5,3,8) gives the positions of the worm built from East, East, East,
\* North, East, South, East, Down, West, West, Up, South, West.
C12_ParserEquivalence ==
    ParsedValid =>
        /\ last.result = "Ok"
        /\ status = "live"
        /\ segment_positions(Self) =
              segment_positions(
                  Worm(head_position,
                       Some([i \in 1..Len(last.input) |-> char_to_direction(last.input[i])])))
        /\ (last.input = DocString /\ head_position = DocHead) =>
              segment_positions(Self) = segment_positions(Worm(DocHead, Some(DocDirections)))

C14_ParserAllOrNothing ==
    ParsedInvalid =>
        /\ last.result = "ParseError"
        /\ last.chain.outcome = "ParseError"
        /\ Len(last.chain.value) = 1
        /\ last.chain.value[1] \notin Vocabulary
        /\ \E i \in 1..Len(last.input) : last.input[i] = last.chain.value[1]
        /\ status = "start"
        /\ Self = last.prev

\* A string with a valid first character and a foreign second one has been
\* rejected.
C14_Witness ==
    /\ last.op = "from_str"
    /\ last.input = <<"^", "#">>
    /\ last.result = "ParseError"

\* C21: in every reachable worm state each pair of consecutive elements of
\* segment_positions() is a pair of grid-adjacent cells: they differ by
\* exactly 1 in exactly one coordinate and are equal in the other two.
C21_ConsecutiveCellsAdjacent ==
    status = "live" =>
        LET sp == segment_positions(Self)
        IN \A k \in 1..(Len(sp) - 1) :
               LET dx == Abs(sp[k + 1].x - sp[k].x)
                   dy == Abs(sp[k + 1].y - sp[k].y)
                   dz == Abs(sp[k + 1].z - sp[k].z)
               IN \/ dx = 1 /\ dy = 0 /\ dz = 0
                  \/ dx = 0 /\ dy = 1 /\ dz = 0
                  \/ dx = 0 /\ dy = 0 /\ dz = 1

\* A worm that has crawled and grown lies along all three axes.
C21_Witness ==
    /\ status = "live"
    /\ last.op \in {"crawl", "try_lengthen"}
    /\ segments.some
    /\ len(segments.dq) = 3
    /\ \E i, j, k \in 1..3 :
           /\ segments.dq[i] \in {"East", "West"}
           /\ segments.dq[j] \in {"North", "South"}
           /\ segments.dq[k] \in {"Up", "Down"}

\* C22: the head position is changed only by a crawl step: try_lengthen,
\* whether it succeeds or fails, LengthenTaillessError::resolve, dropping the
\* error, and the read-only operations is_tailless, num_segments and
\* segment_positions all leave head_position() as it was before the call.
C22_OnlyCrawlMovesHead ==
    (status = "live" /\ last.op \in {"try_lengthen", "resolve", "drop", "segment_positions"}) =>
        head_position = last.prev.head_position

\* A chain away from the origin has just been lengthened.
C22_Witness ==
    /\ status = "live"
    /\ last.op = "try_lengthen"
    /\ last.result = "Ok"
    /\ head_position /= Vector3i_new(0, 0, 0)
    /\ len(segments.dq) = len(PrevChain) + 1

\* C24: segment_positions() and the chain's iter() do not mutate the worm,
\* and what they yield is computed from the worm as it is at the call: the
\* head followed by the running sums of the current chain, whatever crawl,
\* try_lengthen or resolve came before, so that a repeated call with no
\* mutation in between yields the same sequence.
C24_PositionsReadCurrentState ==
    (status = "live" /\ last.op = "segment_positions") =>
        /\ Self = last.prev
        /\ last.count = Len(last.yielded)
        /\ last.tailless = ~segments.some
        /\ last.yielded[1] = head_position
        /\ Len(last.yielded) = 1 + (IF segments.some THEN Len(segments.dq) ELSE 0)
        /\ \A k \in 1..(Len(last.yielded) - 1) :
               last.yielded[k + 1] = Displaced(head_position, segments.dq, k)

\* The positions of a three-entry chain away from the origin are read back.
C24_Witness ==
    /\ status = "live"
    /\ last.op = "segment_positions"
    /\ head_position /= Vector3i_new(0, 0, 0)
    /\ segments.some
    /\ len(segments.dq) = 3
    /\ Len(last.yielded) = 4

\* C23: pop_head and pop_tail on a chain of length L >= 1 return the removed
\* first (respectively last) direction together with the remaining chain,
\* which keeps the other L - 1 entries in order when L >= 2 and is None,
\* never a zero-length chain, when L = 1.
C23_PopReturnsEndAndRest ==
    (status = "live" /\ last.op \in {"pop_head", "pop_tail"}) =>
        LET c == PrevChain
            L == Len(c)
            shift == IF last.op = "pop_head" THEN 1 ELSE 0
        IN /\ L >= 1
           /\ last.direction = (IF last.op = "pop_head" THEN c[1] ELSE c[L])
           /\ L >= 2 => /\ segments.some
                         /\ Len(segments.dq) = L - 1
                         /\ \A i \in 1..(L - 1) : segments.dq[i] = c[i + shift]
           /\ L = 1 => segments = None

\* The only entry of a one-entry chain has been popped from the tail end.
C23_Witness ==
    /\ status = "live"
    /\ last.op = "pop_tail"
    /\ Len(PrevChain) = 1
    /\ ~segments.some

\* The unit step from v in direction d, modulo 2^32 on the stepped component.
Successor(n) == IF n = I32Max THEN I32Min ELSE n + 1

Predecessor(n) == IF n = I32Min THEN I32Max ELSE n - 1

Stepped(v, d) ==
    CASE d = "East"  -> [v EXCEPT !.x = Successor(v.x)]
      [] d = "West"  -> [v EXCEPT !.x = Predecessor(v.x)]
      [] d = "North" -> [v EXCEPT !.y = Successor(v.y)]
      [] d = "South" -> [v EXCEPT !.y = Predecessor(v.y)]
      [] d = "Up"    -> [v EXCEPT !.z = Successor(v.z)]
      [] d = "Down"  -> [v EXCEPT !.z = Predecessor(v.z)]

\* C25: for every Vector3i v and Direction3 d, v + d is v plus the unit
\* vector of d, v - d is v plus the unit vector of negate(d), so that
\* (v + d) - d = v and v - d = v + negate(d); the compound-assignment forms
\* give the same results.
C25_DirectionStepAlgebra ==
    last.op \in StepOps =>
        /\ last.result = "Ok"
        /\ last.yielded =
               << CASE last.op \in {"add_direction", "add_assign_direction"} ->
                          Stepped(last.lhs, last.direction)
                    [] last.op \in {"sub_direction", "sub_assign_direction"} ->
                          Stepped(last.lhs, Neg(last.direction))
                    [] last.op = "add_sub_direction" -> last.lhs >>

\* C26: the Vector3i and Direction3 operations are total over i32
\* components: for every Vector3i, components at the i32 minimum or maximum
\* included, and every Direction3, addition, subtraction, negation,
\* multiplication and the vector-plus-direction step yield a result.
C26_VectorOperationsTotal ==
    last.op \in ({"neg"} \cup BinaryOps \cup StepOps) =>
        /\ last.result = "Ok"
        /\ status = "computed"
        /\ Len(last.yielded) = 1

\* Whether either key of a pair was among the keys read in the last tick.
Held(a, b) == \E i \in 1..Len(last.input) : last.input[i] \in {a, b}

\* C27: per game tick the input mapping yields at most one Direction3 and
\* the worm is crawled at most once: a net horizontal input yields East
\* (right) or West (left) whatever the vertical input, a net vertical input
\* yields North (up) or South (down) only when the horizontal net is zero,
\* opposite keys pressed together cancel, and with no net input no crawl
\* happens and the worm is unchanged.
C27_TickCrawlsAtMostOnce ==
    last.op = "tick" =>
        LET horizontal == AsInt(Held("KEY_D", "KEY_RIGHT")) - AsInt(Held("KEY_A", "KEY_LEFT"))
            vertical   == AsInt(Held("KEY_W", "KEY_UP")) - AsInt(Held("KEY_S", "KEY_DOWN"))
            expected   == IF horizontal = 1 THEN "East"
                          ELSE IF horizontal = -1 THEN "West"
                          ELSE IF vertical = 1 THEN "North"
                          ELSE IF vertical = -1 THEN "South"
                          ELSE "None"
        IN /\ last.direction = expected
           /\ status = "live"
           /\ expected = "None" => Self = last.prev
           /\ expected /= "None" =>
                  /\ head_position = Displaced(last.prev.head_position, <<expected>>, 1)
                  /\ len(segments.dq) = len(PrevChain)
                  /\ Self = crawl(last.prev, expected).worm

\* Right and up are held together with both left keys released, and the
\* worm has crawled East once.
C27_Witness ==
    /\ last.op = "tick"
    /\ Held("KEY_D", "KEY_RIGHT")
    /\ Held("KEY_W", "KEY_UP")
    /\ ~Held("KEY_A", "KEY_LEFT")
    /\ last.direction = "East"
    /\ head_position.x = last.prev.head_position.x + 1

=============================================================================
